---- MODULE Spec2Model ----
\* Model of Config.py (TinyG configuration archive / restore):
\* the Config store and the TinyG request/response driver.
EXTENDS Integers, Sequences, FiniteSets, TLC

\* ---------------------------------------------------------------- bounds

\* Largest number of writable keys the sys group of a restored file holds.
MaxSysKeys == 23

\* Largest number of keys the x group of a restored file holds.
MaxXKeys == 2

\* How many fields the device reports for each group it is queried for.
DevFields == 2

\* How many irregularities one run holds: read timeouts, unsolicited lines,
\* acknowledgements with a falsy 'r'.
MaxFaults == 2

\* How many add_group calls a caller makes on one Config.
MaxMerges == 2

\* How many lines a file given to Config.read holds at most.
MaxLines == 3

\* How many dict objects a caller and its Config hold at most.
MaxObjects == 3

\* ---------------------------------------------------------------- values

\* Python values as they come out of json.loads: None (JSON null, and the
\* value recv_json returns on a timeout), numbers, strings and dicts.  A dict
\* is the sequence of its entries in insertion order.
None == [t |-> "none"]
Num(n) == [t |-> "num", n |-> n]
Str(s) == [t |-> "str", s |-> s]
Obj(d) == [t |-> "obj", d |-> d]
Entry(k, v) == [k |-> k, v |-> v]

\* Python truth value ("if response:", "if not response:").
Truthy(x) ==
    CASE x.t = "none" -> FALSE
      [] x.t = "num" -> x.n # 0
      [] x.t = "float" -> x.r \notin {"0.0", "-0.0"}
      [] x.t = "str" -> x.s # ""
      [] x.t = "obj" -> x.d # << >>

Keys(d) == {d[i].k : i \in DOMAIN d}
KeyList(d) == [i \in DOMAIN d |-> d[i].k]
Has(d, k) == k \in Keys(d)
Get(d, k) == d[CHOOSE i \in DOMAIN d : d[i].k = k].v

\* d[k] = v
DictSet(d, k, v) ==
    IF Has(d, k)
    THEN [i \in DOMAIN d |-> IF d[i].k = k THEN Entry(k, v) ELSE d[i]]
    ELSE Append(d, Entry(k, v))

RECURSIVE DictUpdateFrom(_, _, _)
DictUpdateFrom(d, e, i) ==
    IF i > Len(e) THEN d
    ELSE DictUpdateFrom(DictSet(d, e[i].k, e[i].v), e, i + 1)

\* d.update(e)
DictUpdate(d, e) == DictUpdateFrom(d, e, 1)

\* ---------------------------------------------------------------- registry

\* The keys of CONFIG_STR, per schema, in table order.
CONFIG_STR ==
    "sys" :> << "fb", "fv", "hp", "hv", "id", "ja", "ct", "sl", "st", "mt",
                "ej", "jv", "js", "tv", "qv", "sv", "si", "ec", "ee", "ex",
                "baud", "net", "gpl", "gun", "gco", "gpa", "gdi" >>
    @@ "1" :> << "ma", "sa", "tr", "mi", "po", "pm" >>
    @@ "x" :> << "am", "vm", "fr", "tn", "tm", "jm", "jh", "jd", "sn", "sx",
                 "sv", "lv", "lb", "zb" >>
    @@ "a" :> << "am", "vm", "fr", "tn", "tm", "jm", "jh", "jd", "ra", "sn",
                 "sx", "sv", "lv", "lb", "zb" >>
    @@ "p" :> << "frq", "csl", "csh", "cpl", "cph", "wsl", "wsh", "wpl", "wph",
                 "pof" >>
    @@ "g" :> << "x", "y", "z", "a", "b", "c" >>
    @@ "h" :> << "x", "y", "z", "a", "b", "c" >>

\* (group_id, schema id) in table order.
CONFIG_MAP ==
    << <<"sys", "sys">>, <<"1", "1">>, <<"2", "1">>, <<"3", "1">>,
       <<"4", "1">>, <<"x", "x">>, <<"y", "x">>, <<"z", "x">>, <<"a", "a">>,
       <<"b", "a">>, <<"c", "a">>, <<"p1", "p">>, <<"g54", "g">>,
       <<"g55", "g">>, <<"g56", "g">>, <<"g57", "g">>, <<"g58", "g">>,
       <<"g59", "g">>, <<"g92", "g">>, <<"g28", "h">>, <<"g30", "h">> >>

CONFIG_READ_ONLY == "sys" :> {"fb", "fv", "hp", "hv", "id", "baud"}

NGroups == Len(CONFIG_MAP)
GroupId(i) == CONFIG_MAP[i][1]

\* get_group_strs: the schema of the first map entry named group_id.
get_group_strs(group_id) ==
    CONFIG_STR[CONFIG_MAP[CHOOSE i \in 1..NGroups :
                              /\ CONFIG_MAP[i][1] = group_id
                              /\ \A j \in 1..(i - 1) : CONFIG_MAP[j][1] # group_id][2]]

\* ---------------------------------------------------------------- Config

\* The outcome of a method: the store it leaves, and the exception ("" when
\* it returns normally).
Outcome(cfg, exc) == [cfg |-> cfg, exc |-> exc]

\* Variant of UpdateGroup that replaces the stored group.
UpdateGroupReplace(cfg, key, val) == Outcome(DictSet(cfg, key, val), "")

\* self.config[key].update(val), or the exception it raises.
UpdateGroup(cfg, key, val) ==
    LET cur == Get(cfg, key) IN
    IF cur.t # "obj" THEN Outcome(cfg, "AttributeError")
    ELSE IF val.t = "obj"
         THEN Outcome(DictSet(cfg, key, Obj(DictUpdate(cur.d, val.d))), "")
    ELSE IF val = Str("") THEN Outcome(cfg, "")
    ELSE IF val.t = "str" THEN Outcome(cfg, "ValueError")
    ELSE Outcome(cfg, "TypeError")

RECURSIVE add_group_from(_, _, _)
add_group_from(cfg, group_dict, i) ==
    IF i > Len(group_dict) THEN Outcome(cfg, "")
    ELSE LET key == group_dict[i].k
             val == group_dict[i].v
             step == IF Has(cfg, key) THEN UpdateGroup(cfg, key, val)
                     ELSE Outcome(DictSet(cfg, key, val), "")
         IN IF step.exc # "" THEN step
            ELSE add_group_from(step.cfg, group_dict, i + 1)

\* Config.add_group(group_dict), group_dict any Python value.
add_group(cfg, group_dict) ==
    IF group_dict.t = "obj" THEN add_group_from(cfg, group_dict.d, 1)
    ELSE IF group_dict = Str("") THEN Outcome(cfg, "")
    ELSE Outcome(cfg, "TypeError")

\* Config.get_group(group_id): a copy of the group, None when absent.
get_group(cfg, group_id) ==
    IF Has(cfg, group_id) THEN Get(cfg, group_id) ELSE None

\* The JSON branch of Config.read: add_group({key: cfg_dict[key]}) for each
\* key of the parsed document.
RECURSIVE read_json_from(_, _, _)
read_json_from(cfg, cfg_dict, i) ==
    IF i > Len(cfg_dict) THEN Outcome(cfg, "")
    ELSE LET step == add_group(cfg, Obj(<< cfg_dict[i] >>)) IN
         IF step.exc # "" THEN step
         ELSE read_json_from(step.cfg, cfg_dict, i + 1)

read_json(cfg, cfg_dict) == read_json_from(cfg, cfg_dict, 1)

\* ---------------------------------------------------------------- text

\* Python strings are strings; s[i] is CharAt(s, i + 1), s[n:] is Suffix(s, n).
CharAt(s, i) == SubSeq(s, i, i)
Suffix(s, n) == SubSeq(s, n + 1, Len(s))

\* s.startswith(p)
StartsWith(s, p) == Len(p) <= Len(s) /\ SubSeq(s, 1, Len(p)) = p

Digits == "0123456789"
IsDigit(c) == \E i \in 1..Len(Digits) : CharAt(Digits, i) = c
DigitVal(c) == (CHOOSE i \in 1..Len(Digits) : CharAt(Digits, i) = c) - 1
AllDigits(s) == s # "" /\ \A i \in 1..Len(s) : IsDigit(CharAt(s, i))

\* str.isspace of one character.
IsSpace(c) == c \in {" ", "\n", "\t", "\r"}

\* The first / last place of character c in s, 0 when there is none.
IndexOfChar(s, c) ==
    IF \E i \in 1..Len(s) : CharAt(s, i) = c
    THEN CHOOSE i \in 1..Len(s) :
            CharAt(s, i) = c /\ \A j \in 1..(i - 1) : CharAt(s, j) # c
    ELSE 0

LastIndexOfChar(s, c) ==
    IF \E i \in 1..Len(s) : CharAt(s, i) = c
    THEN CHOOSE i \in 1..Len(s) :
            CharAt(s, i) = c /\ \A j \in (i + 1)..Len(s) : CharAt(s, j) # c
    ELSE 0

RECURSIVE LStrip(_)
LStrip(s) == IF s # "" /\ IsSpace(Head(s)) THEN LStrip(Tail(s)) ELSE s

RECURSIVE RStrip(_)
RStrip(s) ==
    IF s # "" /\ IsSpace(CharAt(s, Len(s))) THEN RStrip(SubSeq(s, 1, Len(s) - 1))
    ELSE s

\* s.strip()
strip(s) == RStrip(LStrip(s))

RECURSIVE SplitFrom(_, _, _)
SplitFrom(s, cur, acc) ==
    IF s = "" THEN (IF cur = "" THEN acc ELSE Append(acc, cur))
    ELSE IF IsSpace(Head(s))
         THEN SplitFrom(Tail(s), "", IF cur = "" THEN acc ELSE Append(acc, cur))
    ELSE SplitFrom(Tail(s), cur \o Head(s), acc)

\* s.split(): the fields between runs of whitespace.
split(s) == SplitFrom(s, "", << >>)

RECURSIVE JoinFrom(_, _, _)
JoinFrom(sep, strs, i) ==
    IF i > Len(strs) THEN ""
    ELSE (IF i > 1 THEN sep ELSE "") \o strs[i] \o JoinFrom(sep, strs, i + 1)

\* sep.join(strs)
join(sep, strs) == JoinFrom(sep, strs, 1)

\* ---------------------------------------------------------------- numbers

\* A Python float, named by its repr (the decimal numeral that json.dumps
\* writes): an integer part without leading zeros, a point, a fraction
\* without trailing zeros.  The model's floats are the ones repr writes in
\* positional notation (1e-4 <= |x| < 1e16, and zero).
Flt(r) == [t |-> "float", r |-> r]

Unsigned(s) == IF s # "" /\ Head(s) \in {"+", "-"} THEN Tail(s) ELSE s
Negative(s) == s # "" /\ Head(s) = "-"

\* int(s) takes s: an optional sign and digits.
IntText(s) == AllDigits(Unsigned(s))

RECURSIVE NatOf(_)
NatOf(digs) ==
    IF digs = "" THEN 0
    ELSE NatOf(SubSeq(digs, 1, Len(digs) - 1)) * 10 + DigitVal(CharAt(digs, Len(digs)))

\* int(s)
IntOf(s) == IF Negative(s) THEN 0 - NatOf(Unsigned(s)) ELSE NatOf(Unsigned(s))

\* float(s) takes s: an optional sign, digits with at most one point among
\* them, at least one digit.  (The tokens of the model's inputs hold no
\* exponent, inf or nan.)
FloatText(s) ==
    LET body == Unsigned(s)
        p == IndexOfChar(body, ".")
    IN IF p = 0 THEN AllDigits(body)
       ELSE AllDigits(SubSeq(body, 1, p - 1) \o Suffix(body, p))

RECURSIVE StripLeadingZeros(_)
StripLeadingZeros(s) ==
    IF Len(s) > 1 /\ Head(s) = "0" THEN StripLeadingZeros(Tail(s)) ELSE s

RECURSIVE StripTrailingZeros(_)
StripTrailingZeros(s) ==
    IF Len(s) > 1 /\ CharAt(s, Len(s)) = "0"
    THEN StripTrailingZeros(SubSeq(s, 1, Len(s) - 1))
    ELSE s

\* repr(float(s))
FloatRepr(s) ==
    LET body == Unsigned(s)
        p == IndexOfChar(body, ".")
        ip == IF p = 0 THEN body ELSE SubSeq(body, 1, p - 1)
        fp == IF p = 0 THEN "" ELSE Suffix(body, p)
    IN (IF Negative(s) THEN "-" ELSE "")
           \o StripLeadingZeros(IF ip = "" THEN "0" ELSE ip)
           \o "." \o StripTrailingZeros(IF fp = "" THEN "0" ELSE fp)

\* is_number: float(s) does not raise.
is_number(s) == FloatText(s)

\* get_val: int, else float, else the string itself.
get_val(val_str) ==
    IF IntText(val_str) THEN Num(IntOf(val_str))
    ELSE IF FloatText(val_str) THEN Flt(FloatRepr(val_str))
    ELSE Str(val_str)

RECURSIVE IntStrNat(_)
IntStrNat(n) ==
    IF n < 10 THEN CharAt(Digits, n + 1)
    ELSE IntStrNat(n \div 10) \o CharAt(Digits, (n % 10) + 1)

\* str(n) of an int
IntStr(n) == IF n < 0 THEN "-" \o IntStrNat(0 - n) ELSE IntStrNat(n)

\* ---------------------------------------------------------------- json

RECURSIVE Escape(_)
Escape(s) ==
    IF s = "" THEN ""
    ELSE (IF Head(s) \in {"\"", "\\"} THEN "\\" ELSE "") \o Head(s) \o Escape(Tail(s))

\* A JSON string literal.
Quote(s) == "\"" \o Escape(s) \o "\""

\* json.dumps
RECURSIVE dumps(_)
RECURSIVE dumps_items(_, _)
dumps(x) ==
    CASE x.t = "none" -> "null"
      [] x.t = "num" -> IntStr(x.n)
      [] x.t = "float" -> x.r
      [] x.t = "str" -> Quote(x.s)
      [] x.t = "obj" -> "{" \o dumps_items(x.d, 1) \o "}"

dumps_items(d, i) ==
    IF i > Len(d) THEN ""
    ELSE (IF i > 1 THEN ", " ELSE "") \o Quote(d[i].k) \o ": " \o dumps(d[i].v)
             \o dumps_items(d, i + 1)

\* The result of a parsing step: the value and the text after it, or failure.
Fail == [ok |-> FALSE, v |-> None, rest |-> ""]
Parsed(v, rest) == [ok |-> TRUE, v |-> v, rest |-> rest]

RECURSIVE SkipWs(_)
SkipWs(s) == IF s # "" /\ IsSpace(Head(s)) THEN SkipWs(Tail(s)) ELSE s

\* The rest of a string literal, after its opening quote.  A raw line end
\* inside a string is an error (json's strict mode).
RECURSIVE ScanString(_, _)
ScanString(s, acc) ==
    IF s = "" THEN Fail
    ELSE IF Head(s) = "\"" THEN Parsed(Str(acc), Tail(s))
    ELSE IF Head(s) \in {"\n", "\r", "\t"} THEN Fail
    ELSE IF Head(s) = "\\"
         THEN IF Len(s) >= 2 /\ CharAt(s, 2) \in {"\"", "\\", "/"}
              THEN ScanString(Suffix(s, 2), acc \o CharAt(s, 2))
              ELSE Fail
    ELSE ScanString(Tail(s), acc \o Head(s))

\* The longest prefix of s made of digits.
RECURSIVE DigitRun(_)
DigitRun(s) ==
    IF s # "" /\ IsDigit(Head(s)) THEN Head(s) \o DigitRun(Tail(s)) ELSE ""

\* A JSON number: -? (0 | [1-9][0-9]*) (. [0-9]+)?, an int without a
\* fraction, a float with one.
ScanNumber(s) ==
    LET sign == IF Negative(s) THEN "-" ELSE ""
        body == Suffix(s, Len(sign))
        run == DigitRun(body)
        ip == IF run # "" /\ Head(run) = "0" THEN "0" ELSE run
        after == Suffix(body, Len(ip))
        fp == IF after # "" /\ Head(after) = "." THEN DigitRun(Tail(after)) ELSE ""
    IN IF ip = "" THEN Fail
       ELSE IF fp = "" THEN Parsed(Num(IntOf(sign \o ip)), after)
       ELSE Parsed(Flt(FloatRepr(sign \o ip \o "." \o fp)), Suffix(after, 1 + Len(fp)))

RECURSIVE ParseValue(_)
RECURSIVE ParseMembers(_, _)
ParseValue(s) ==
    LET u == SkipWs(s) IN
    IF u = "" THEN Fail
    ELSE IF Head(u) = "{"
         THEN LET w == SkipWs(Tail(u)) IN
              IF w # "" /\ Head(w) = "}" THEN Parsed(Obj(<< >>), Tail(w))
              ELSE ParseMembers(w, << >>)
    ELSE IF Head(u) = "\"" THEN ScanString(Tail(u), "")
    ELSE IF StartsWith(u, "null") THEN Parsed(None, Suffix(u, 4))
    ELSE ScanNumber(u)

\* The members of an object from a key on; a repeated key keeps its last value.
ParseMembers(s, acc) ==
    IF s = "" \/ Head(s) # "\"" THEN Fail
    ELSE LET k == ScanString(Tail(s), "")
             a == SkipWs(k.rest)
         IN IF ~k.ok \/ a = "" \/ Head(a) # ":" THEN Fail
            ELSE LET v == ParseValue(Tail(a))
                     b == SkipWs(v.rest)
                 IN IF ~v.ok \/ b = "" THEN Fail
                    ELSE IF Head(b) = ","
                         THEN ParseMembers(SkipWs(Tail(b)), DictSet(acc, k.v.s, v.v))
                    ELSE IF Head(b) = "}"
                         THEN Parsed(Obj(DictSet(acc, k.v.s, v.v)), Tail(b))
                    ELSE Fail

\* json.loads: one value and nothing but whitespace after it.  (The model's
\* documents hold objects, strings, numbers and null.)
loads(s) ==
    LET p == ParseValue(s) IN
    IF p.ok /\ SkipWs(p.rest) = "" THEN p ELSE Fail

\* ---------------------------------------------------------------- codec

\* is_id_in_group: id is a key of the schema of group_id.
is_id_in_group(id, group_id) ==
    \E j \in DOMAIN get_group_strs(group_id) : get_group_strs(group_id)[j] = id

\* The tuple id_to_group_key returns.
GroupKey(group_id, group_key) == [t |-> "tuple", group |-> group_id, key |-> group_key]

\* Variant of id_to_group_key_from that files a key it cannot place under sys.
RECURSIVE id_to_group_key_or_sys(_, _)
id_to_group_key_or_sys(id, i) ==
    IF i > NGroups THEN GroupKey("sys", id)
    ELSE IF /\ StartsWith(id, GroupId(i))
            /\ is_id_in_group(Suffix(id, Len(GroupId(i))), GroupId(i))
         THEN GroupKey(GroupId(i), Suffix(id, Len(GroupId(i))))
    ELSE id_to_group_key_or_sys(id, i + 1)

\* id_to_group_key's scan of CONFIG_MAP from entry i on; None when the loop
\* ends without a return.
RECURSIVE id_to_group_key_from(_, _)
id_to_group_key_from(id, i) ==
    IF i > NGroups THEN None
    ELSE IF /\ StartsWith(id, GroupId(i))
            /\ is_id_in_group(Suffix(id, Len(GroupId(i))), GroupId(i))
         THEN GroupKey(GroupId(i), Suffix(id, Len(GroupId(i))))
    ELSE id_to_group_key_from(id, i + 1)

\* Variant of id_to_group_key without the check of the sys group.
id_to_group_key_no_sys(id) == id_to_group_key_from(id, 1)

id_to_group_key(id) ==
    IF is_id_in_group(id, "sys") THEN GroupKey("sys", id)
    ELSE id_to_group_key_from(id, 1)

\* re.search(r'\[(.*)\]', field).group(1): from the first '[' to the last
\* ']' after it; None when search finds nothing.
BracketKey(field) ==
    LET i == IndexOfChar(field, "[")
        j == LastIndexOfChar(field, "]")
    IN IF i = 0 \/ j < i THEN None ELSE Str(SubSeq(field, i + 1, j - 1))

\* read_text: the first of fields[i:] that is_number, None when there is none.
RECURSIVE FirstNumber(_, _)
FirstNumber(fields, i) ==
    IF i > Len(fields) THEN None
    ELSE IF is_number(fields[i]) THEN Str(fields[i])
    ELSE FirstNumber(fields, i + 1)

\* Variant of read_text_from that passes over a line it cannot parse.
RECURSIVE read_text_skipping(_, _, _)
read_text_skipping(cfg, lines, i) ==
    IF i > Len(lines) THEN Outcome(cfg, "")
    ELSE IF lines[i] = "" \/ CharAt(lines[i], 1) # "["
         THEN read_text_skipping(cfg, lines, i + 1)
    ELSE LET fields == split(strip(lines[i]))
             key == BracketKey(fields[1])
             val_str == FirstNumber(fields, 2)
             gk == IF key = None THEN None ELSE id_to_group_key(key.s)
         IN IF gk = None \/ val_str = None
            THEN read_text_skipping(cfg, lines, i + 1)
            ELSE read_text_skipping(
                     add_group(cfg,
                         Obj(<< Entry(gk.group,
                                      Obj(<< Entry(gk.key, get_val(val_str.s)) >>)) >>)).cfg,
                     lines, i + 1)

\* read_text's loop from line i on.
RECURSIVE read_text_from(_, _, _)
read_text_from(cfg, lines, i) ==
    IF i > Len(lines) THEN Outcome(cfg, "")
    ELSE IF lines[i] = "" THEN Outcome(cfg, "IndexError")
    ELSE IF CharAt(lines[i], 1) # "[" THEN read_text_from(cfg, lines, i + 1)
    ELSE LET fields == split(strip(lines[i]))
             key == BracketKey(fields[1])
         IN IF key = None THEN Outcome(cfg, "AttributeError")
            ELSE IF key.s = "id" /\ Len(fields) < 4 THEN Outcome(cfg, "IndexError")
            ELSE LET val_str == IF key.s = "id" THEN Str(fields[4])
                                ELSE FirstNumber(fields, 2)
                     gk == id_to_group_key(key.s)
                 IN IF gk = None \/ val_str = None THEN Outcome(cfg, "TypeError")
                    ELSE LET step ==
                                 add_group(cfg,
                                     Obj(<< Entry(gk.group,
                                                  Obj(<< Entry(gk.key, get_val(val_str.s)) >>)) >>))
                         IN IF step.exc # "" THEN step
                            ELSE read_text_from(step.cfg, lines, i + 1)

\* Config.read_text(lines)
read_text(cfg, lines) == read_text_from(cfg, lines, 1)

\* Variant of read that takes a file starting with '{' for text.
read_inverted(cfg, lines) ==
    IF lines # << >> /\ lines[1] # "" /\ CharAt(lines[1], 1) = "{"
    THEN read_text(cfg, lines)
    ELSE LET cfg_dict == loads(join(" ", lines)) IN
         IF ~cfg_dict.ok THEN Outcome(cfg, "JSONDecodeError")
         ELSE IF cfg_dict.v.t # "obj" THEN Outcome(cfg, "TypeError")
         ELSE read_json(cfg, cfg_dict.v.d)

\* Config.read(file), lines what file.readlines() returns.
read(cfg, lines) ==
    IF lines # << >> /\ lines[1] # "" /\ CharAt(lines[1], 1) # "{"
    THEN read_text(cfg, lines)
    ELSE LET cfg_dict == loads(join(" ", lines)) IN
         IF ~cfg_dict.ok THEN Outcome(cfg, "JSONDecodeError")
         ELSE IF cfg_dict.v.t # "obj" THEN Outcome(cfg, "TypeError")
         ELSE read_json(cfg, cfg_dict.v.d)

\* Config.write(file): the lines of the file written.
write(cfg) == << dumps(Obj(cfg)) \o "\n" >>

\* send_line: the bytes written to the port for a command.
send_line(line) == line \o "\n"

\* send_json
send_json(cmd_dict) == send_line(dumps(Obj(cmd_dict)))

\* ---------------------------------------------------------------- TinyG

VARIABLES
    pc,              \* where main is: start, loaded, open_wait, rc_wait, wc_wait, done, raised
    cmd,             \* the command main runs: none, archive, restore
    exc,             \* the exception that ended the run ("" when none)
    config,          \* Config.config
    gi,              \* index in CONFIG_MAP of the group read_config / write_config is at
    filtered_keys,   \* write_config: the keys of the group still to send
    filtered_config, \* write_config: the group without its read-only keys
    sent,            \* the command dicts written to the port, in order
    rx,              \* the lines the device has written and the host has not read
    answered,        \* how many commands the device has answered or dropped
    faults,          \* irregularities so far (see MaxFaults)
    lastEnd,         \* how the last finished read_response ended
    failures,        \* the waits of write_config that ended without an 'r' line
    storeAtSend,     \* the store when the last command was sent
    file,            \* the lines of the file Config.read is given or Config.write wrote
    call,            \* the last call made on the Config, with its arguments and result
    heap,            \* the dict objects of the program, by identity
    passed           \* the dicts the caller passed to add_group and still holds

vars == << pc, cmd, exc, config, gi, filtered_keys, filtered_config, sent, rx,
           answered, faults, lastEnd, failures, storeAtSend, file, call, heap,
           passed >>

\* What the driver's steps leave alone.
lib == << file, call, heap, passed >>

\* What the calls on a Config alone leave alone.
driver == << cmd, gi, filtered_keys, filtered_config, sent, rx, answered, faults,
            lastEnd, failures, storeAtSend >>

\* n counts the calls that changed the store.
NoCall == [op |-> "none", n |-> 0]

WaitStates == {"open_wait", "rc_wait", "wc_wait"}

\* The position of main between two blocking reads, with the commands it
\* sends on the way there.
St(p, i, fk, fc, out, cfg, e) ==
    [pc |-> p, gi |-> i, fk |-> fk, fc |-> fc, out |-> out, cfg |-> cfg, exc |-> e]

\* recv_json's "if not response" / "'r' in response": read_response returns.
ReadResponseReturns(response) ==
    \/ ~Truthy(response)
    \/ Has(response.d, "r")

\* The value read_response returns.
ReadResponseValue(response) ==
    IF ~Truthy(response) THEN None ELSE Get(response.d, "r")

\* read_config: send_json({group: None}).
Query(group) == << Entry(group, None) >>

\* Variant of ReadConfigMerge that records an empty group when nothing came.
ReadConfigMergeAlways(cfg, group, response) ==
    IF Truthy(response) THEN add_group(cfg, response)
    ELSE add_group(cfg, Obj(<< Entry(group, Obj(<< >>)) >>))

\* read_config: "if response: config.add_group(response)".
ReadConfigMerge(cfg, group, response) ==
    IF Truthy(response) THEN add_group(cfg, response) ELSE Outcome(cfg, "")

\* Variant of ReadConfigNext that asks again when nothing came.
ReadConfigNextRetry(i, response) == IF Truthy(response) THEN i + 1 ELSE i

\* read_config: the map entry the for loop takes after entry i.
ReadConfigNext(i, response) == i + 1

\* read_config from map entry i on, up to its next read_response.
ReadConfigFrom(cfg, i) ==
    IF i > NGroups THEN St("done", i, << >>, << >>, << >>, cfg, "")
    ELSE St("rc_wait", i, << >>, << >>, << Query(GroupId(i)) >>, cfg, "")

\* Variant of FilterReadOnly that removes nothing.
FilterReadOnlyNone(group_id, group_config) == group_config

\* write_config: filtered_config, the group without its read-only keys.
FilterReadOnly(group_id, group_config) ==
    IF group_id \in DOMAIN CONFIG_READ_ONLY
    THEN SelectSeq(group_config, LAMBDA e : e.k \notin CONFIG_READ_ONLY[group_id])
    ELSE group_config

\* write_config sends this many parameters at a time.
ChunkSize == 10

Min(a, b) == IF a < b THEN a ELSE b

\* key_slice = filtered_keys[:10]
KeySlice(keys) == SubSeq(keys, 1, Min(ChunkSize, Len(keys)))

\* del filtered_keys[:10]
KeyRest(keys) == SubSeq(keys, Min(ChunkSize, Len(keys)) + 1, Len(keys))

\* {group_id: {key: filtered_config[key] for key in key_slice}}
SetCommand(group_id, key_slice, fc) ==
    << Entry(group_id,
             Obj([j \in DOMAIN key_slice |->
                     Entry(key_slice[j], Get(fc, key_slice[j]))])) >>

\* One turn of "while filtered_keys": send the next chunk and wait.
WriteChunk(cfg, i, fk, fc) ==
    St("wc_wait", i, KeyRest(fk), fc,
       << SetCommand(GroupId(i), KeySlice(fk), fc) >>, cfg, "")

\* Variant of WriteConfigFrom whose loop sends a chunk before it looks at
\* filtered_keys.
RECURSIVE WriteConfigFromSendFirst(_, _)
WriteConfigFromSendFirst(cfg, i) ==
    IF i > NGroups THEN St("done", i, << >>, << >>, << >>, cfg, "")
    ELSE LET group_config == get_group(cfg, GroupId(i)) IN
         IF ~Truthy(group_config) THEN WriteConfigFromSendFirst(cfg, i + 1)
         ELSE LET fc == FilterReadOnly(GroupId(i), group_config.d) IN
              WriteChunk(cfg, i, KeyList(fc), fc)

\* write_config's for loop from map entry i on, up to its next read_response.
RECURSIVE WriteConfigFrom(_, _)
WriteConfigFrom(cfg, i) ==
    IF i > NGroups THEN St("done", i, << >>, << >>, << >>, cfg, "")
    ELSE LET group_config == get_group(cfg, GroupId(i)) IN
         IF ~Truthy(group_config) THEN WriteConfigFrom(cfg, i + 1)
         ELSE LET fc == FilterReadOnly(GroupId(i), group_config.d)
                  fk == KeyList(fc)
              IN IF fk = << >> THEN WriteConfigFrom(cfg, i + 1)
                 ELSE WriteChunk(cfg, i, fk, fc)

\* Variant of WriteChunkFailed that never sees a failure.
WriteChunkFailedNever(response) == FALSE

\* write_config: "if not response".
WriteChunkFailed(response) == ~Truthy(response)

\* write_config lines 433-434: the print names 'group', which write_config
\* never binds, so it raises NameError and the break is not reached.
WriteFailure(cfg, i, fk, fc) == St("raised", i, fk, fc, << >>, cfg, "NameError")

\* What main does with the value read_response returned, up to the next
\* blocking read.
Continue(response) ==
    CASE pc = "open_wait" ->
            IF cmd = "archive" THEN ReadConfigFrom(config, 1)
            ELSE WriteConfigFrom(config, 1)
      [] pc = "rc_wait" ->
            LET m == ReadConfigMerge(config, GroupId(gi), response) IN
            IF m.exc # "" THEN St("raised", gi, << >>, << >>, << >>, m.cfg, m.exc)
            ELSE ReadConfigFrom(m.cfg, ReadConfigNext(gi, response))
      [] pc = "wc_wait" ->
            IF WriteChunkFailed(response)
            THEN WriteFailure(config, gi, filtered_keys, filtered_config)
            ELSE IF filtered_keys # << >>
                 THEN WriteChunk(config, gi, filtered_keys, filtered_config)
                 ELSE WriteConfigFrom(config, gi + 1)

\* lastEnd: how the wait ended (timeout, line), the line that ended it, the
\* command that line answers (0: none), the command that was awaited, where
\* main was waiting, and the store when the awaited command was sent.
NoEnd ==
    [how |-> "none", json |-> << >>, re |-> 0, for |-> 0, at |-> "none",
     store |-> << >>]

\* One turn of read_response's loop: recv_json returned response (None on a
\* timeout), read from a line that answers command re (0: none).
HostStep(response, how, re) ==
    IF ~ReadResponseReturns(response)
    THEN UNCHANGED << pc, cmd, exc, config, gi, filtered_keys, filtered_config, sent,
                    lastEnd, failures, storeAtSend >>
    ELSE LET n == Continue(ReadResponseValue(response))
             json == IF how = "line" THEN response.d ELSE << >>
         IN /\ pc' = n.pc
            /\ exc' = n.exc
            /\ config' = n.cfg
            /\ gi' = n.gi
            /\ filtered_keys' = n.fk
            /\ filtered_config' = n.fc
            /\ sent' = sent \o n.out
            /\ storeAtSend' = IF n.out # << >> THEN n.cfg ELSE storeAtSend
            /\ lastEnd' = [how |-> how, json |-> json, re |-> re,
                           for |-> Len(sent), at |-> pc, store |-> storeAtSend]
            /\ failures' = IF pc = "wc_wait" /\ ~Has(json, "r")
                           THEN failures \cup {[group |-> GroupId(gi), at |-> Len(sent),
                                                how |-> how]}
                           ELSE failures
            /\ UNCHANGED cmd

\* ---------------------------------------------------------------- inputs

\* Keys a saved file may hold for sys beyond the schema's (the store takes
\* any key).
SysExtraKeys == << "u1", "u2", "u3", "u4" >>

SysKeyUniverse == CONFIG_STR["sys"] \o SysExtraKeys

SysWritableUniverse ==
    SelectSeq(SysKeyUniverse, LAMBDA k : k \notin CONFIG_READ_ONLY["sys"])

IndexOf(seq, k) == CHOOSE i \in DOMAIN seq : seq[i] = k

\* The value a saved file holds for a key: the id is a string, the rest
\* numbers, all different within a group.
FileValue(universe, k) ==
    IF k = "id" THEN Str("9H3583-XZT") ELSE Num(100 + IndexOf(universe, k))

FileGroup(universe, keep) ==
    LET ks == SelectSeq(universe, LAMBDA k : k \in keep) IN
    [j \in DOMAIN ks |-> Entry(ks[j], FileValue(universe, ks[j]))]

\* The read-only keys a saved sys group holds.
ReadOnlyChoices == { {}, {"fb", "fv", "id"}, CONFIG_READ_ONLY["sys"] }

SysGroups ==
    { FileGroup(SysKeyUniverse,
                ro \cup { SysWritableUniverse[j] : j \in 1..n }) :
        ro \in ReadOnlyChoices, n \in 0..MaxSysKeys }

XGroups ==
    { FileGroup(CONFIG_STR["x"], { CONFIG_STR["x"][j] : j \in 1..n }) :
        n \in 0..MaxXKeys }

HomeGroup == FileGroup(CONFIG_STR["h"], {"x"})

Part(group_id, groups) ==
    { << >> } \cup { << Entry(group_id, Obj(g)) >> : g \in groups }

\* A saved file whose x group holds its whole schema, each value a float
\* written with all its digits.
PreciseFile ==
    << Entry("x", Obj([j \in DOMAIN CONFIG_STR["x"] |->
                          Entry(CONFIG_STR["x"][j], Flt("16000.000000000002"))])) >>

\* The parsed JSON documents main restores from: sys, then x, then g30 (or
\* none of the two).
RestoreFiles ==
    { s \o t : s \in Part("sys", SysGroups),
                t \in { << >> } \cup { << Entry("x", Obj(x)), Entry("g30", Obj(HomeGroup)) >> :
                                          x \in XGroups } }
        \cup { PreciseFile }

\* What the device holds for a group: the first DevFields fields of its schema.
DeviceGroup(group_id) ==
    LET strs == get_group_strs(group_id) IN
    [j \in 1..Min(DevFields, Len(strs)) |-> Entry(strs[j], Num(j))]

\* The 'r' payload with which the device answers a command: the group for a
\* query, the command's own body for anything else.
DeviceAnswer(command) ==
    IF command[1].v = None
    THEN Obj(<< Entry(command[1].k, Obj(DeviceGroup(command[1].k))) >>)
    ELSE Obj(command)

ReplyValue(kind, command) ==
    CASE kind = "answer" -> DeviceAnswer(command)
      [] kind = "empty" -> Obj(<< >>)
      [] kind = "null" -> None
      [] kind = "zero" -> Num(0)

StatusLine(kind) ==
    IF kind = "sr" THEN << Entry("sr", Obj(<< Entry("posx", Num(1)) >>)) >>
    ELSE << >>

\* ---------------------------------------------------------------- actions

\* main before its command: Config(), TinyG().
Start ==
    /\ pc = "start"
    /\ cmd = "none"
    /\ exc = ""
    /\ config = << >>
    /\ gi = 0
    /\ filtered_keys = << >>
    /\ filtered_config = << >>
    /\ sent = << >>
    /\ rx = << >>
    /\ answered = 0
    /\ faults = 0
    /\ lastEnd = NoEnd
    /\ failures = {}
    /\ storeAtSend = << >>

Init ==
    /\ Start
    /\ file = << >>
    /\ call = NoCall
    /\ heap = << >>
    /\ passed = {}

\* main, restore: config.read(file) of a JSON file.
RestoreRead ==
    /\ pc = "start"
    /\ \E f \in RestoreFiles :
          LET out == read_json(config, f) IN
          /\ config' = out.cfg
          /\ exc' = out.exc
          /\ pc' = IF out.exc = "" THEN "loaded" ELSE "raised"
    /\ cmd' = "restore"
    /\ UNCHANGED << gi, filtered_keys, filtered_config, sent, rx, answered, lastEnd,
                    failures, storeAtSend, faults >>
    /\ UNCHANGED lib

\* open_serial: send {gc: G21} and wait for its response.
OpenSerial ==
    /\ pc \in {"start", "loaded"}
    /\ cmd' = IF pc = "start" THEN "archive" ELSE cmd
    /\ sent' = Append(sent, << Entry("gc", Str("G21")) >>)
    /\ storeAtSend' = config
    /\ pc' = "open_wait"
    /\ UNCHANGED << exc, config, gi, filtered_keys, filtered_config, rx, answered, lastEnd,
                    failures, faults >>
    /\ UNCHANGED lib

\* recv_json reads the next line.
HostRecvLine ==
    /\ pc \in WaitStates
    /\ rx # << >>
    /\ rx' = Tail(rx)
    /\ HostStep(Obj(Head(rx).json), "line", Head(rx).re)
    /\ UNCHANGED << answered, faults >>
    /\ UNCHANGED lib

\* recv_json reads nothing within the port's timeout.
HostTimeout ==
    /\ pc \in WaitStates
    /\ rx = << >>
    /\ faults < MaxFaults
    /\ faults' = faults + 1
    /\ HostStep(None, "timeout", 0)
    /\ UNCHANGED << rx, answered >>
    /\ UNCHANGED lib

\* The device answers the oldest command it has not answered yet.  The host
\* reads the lines in the order they were written, so a line is modelled as
\* written once the host has read the ones before it.
DeviceReply ==
    /\ pc \in WaitStates
    /\ rx = << >>
    /\ answered < Len(sent)
    /\ \E kind \in {"answer", "empty", "null", "zero"} :
          /\ kind # "answer" => faults < MaxFaults
          /\ faults' = IF kind = "answer" THEN faults ELSE faults + 1
          /\ rx' = Append(rx, [json |-> << Entry("r", ReplyValue(kind, sent[answered + 1])) >>,
                               re |-> answered + 1])
    /\ answered' = answered + 1
    /\ UNCHANGED << pc, cmd, exc, config, gi, filtered_keys, filtered_config, sent,
                    lastEnd, failures, storeAtSend >>
    /\ UNCHANGED lib

\* The device drops a command without answering it.
DeviceSkip ==
    /\ pc \in WaitStates
    /\ answered < Len(sent)
    /\ answered' = answered + 1
    /\ UNCHANGED << pc, cmd, exc, config, gi, filtered_keys, filtered_config, sent, rx,
                    lastEnd, failures, storeAtSend, faults >>
    /\ UNCHANGED lib

\* The device writes a line nobody asked for: a status report, or {}.
DeviceStatus ==
    /\ pc \in WaitStates
    /\ rx = << >>
    /\ faults < MaxFaults
    /\ faults' = faults + 1
    /\ \E kind \in {"sr", "object"} :
          rx' = Append(rx, [json |-> StatusLine(kind), re |-> 0])
    /\ UNCHANGED << pc, cmd, exc, config, gi, filtered_keys, filtered_config, sent,
                    answered, lastEnd, failures, storeAtSend >>
    /\ UNCHANGED lib

Next ==
    \/ RestoreRead
    \/ OpenSerial
    \/ HostRecvLine
    \/ HostTimeout
    \/ DeviceReply
    \/ DeviceSkip
    \/ DeviceStatus

Spec == Init /\ [][Next]_vars

\* ------------------------------------------- restore, device unconstrained

\* main, restore: open_serial after config.read.
RestoreOpen == pc = "loaded" /\ OpenSerial

\* recv_json reads nothing within the port's timeout, any number of times.
FreeTimeout ==
    /\ pc \in WaitStates
    /\ rx = << >>
    /\ HostStep(None, "timeout", 0)
    /\ UNCHANGED << rx, answered, faults >>
    /\ UNCHANGED lib

\* The device answers the oldest command it has not answered yet, with any
\* payload.
FreeReply ==
    /\ pc \in WaitStates
    /\ rx = << >>
    /\ answered < Len(sent)
    /\ \E kind \in {"answer", "empty", "null", "zero"} :
          rx' = Append(rx, [json |-> << Entry("r", ReplyValue(kind, sent[answered + 1])) >>,
                            re |-> answered + 1])
    /\ answered' = answered + 1
    /\ UNCHANGED << pc, cmd, exc, config, gi, filtered_keys, filtered_config, sent,
                    lastEnd, failures, storeAtSend, faults >>
    /\ UNCHANGED lib

\* The device writes a line nobody asked for, as often as it likes.
FreeStatus ==
    /\ pc \in WaitStates
    /\ rx = << >>
    /\ \E kind \in {"sr", "object"} :
          rx' = Append(rx, [json |-> StatusLine(kind), re |-> 0])
    /\ UNCHANGED << pc, cmd, exc, config, gi, filtered_keys, filtered_config, sent,
                    answered, lastEnd, failures, storeAtSend, faults >>
    /\ UNCHANGED lib

NextRestore ==
    \/ RestoreRead
    \/ RestoreOpen
    \/ HostRecvLine
    \/ FreeTimeout
    \/ FreeReply
    \/ DeviceSkip
    \/ FreeStatus

\* The host is never stopped: a line that is there is read, and a read with
\* no line to read returns after the port's timeout.  Nothing is assumed of
\* the device.
SpecRestore ==
    /\ Init
    /\ [][NextRestore]_vars
    /\ WF_vars(HostRecvLine)
    /\ WF_vars(FreeTimeout)

\* ------------------------------------------------- a Config and its caller

\* The (group, fields) a caller merges: groups of the linear-axis schema,
\* fields with an int, a float or a string.
MergeGroups == {"x", "y"}
MergeKeys == {"am", "vm"}
MergeValues == {Num(5), Flt("0.5"), Str("a\"b")}

MergeFields ==
    { << >> }
        \cup { << Entry(k, v) >> : k \in MergeKeys, v \in MergeValues }
        \cup { << Entry("am", v), Entry("vm", v) >> : v \in MergeValues }

\* config.add_group({group: fields})
ConfigAddGroup ==
    /\ pc = "start"
    /\ call.n < MaxMerges
    /\ \E g \in MergeGroups, f \in MergeFields :
          LET out == add_group(config, Obj(<< Entry(g, Obj(f)) >>)) IN
          /\ config' = out.cfg
          /\ exc' = out.exc
          /\ pc' = IF out.exc = "" THEN pc ELSE "raised"
          /\ call' = [op |-> "add_group", n |-> call.n + 1, before |-> config,
                      group |-> g, fields |-> f]
    /\ UNCHANGED << file, heap, passed >>
    /\ UNCHANGED driver

\* config.write(file)
ConfigWrite ==
    /\ pc = "start"
    /\ call.op # "write"
    /\ file' = write(config)
    /\ call' = [op |-> "write", n |-> call.n]
    /\ UNCHANGED << pc, exc, config, heap, passed >>
    /\ UNCHANGED driver

\* Config().read(file) of the file just written: call.ret is the store of
\* the fresh Config, and the exception read raised.
ConfigReadBack ==
    /\ pc = "start"
    /\ call.op = "write"
    /\ call' = [op |-> "read", n |-> call.n, ret |-> read(<< >>, file)]
    /\ UNCHANGED << pc, exc, config, file, heap, passed >>
    /\ UNCHANGED driver

NextStore ==
    \/ ConfigAddGroup
    \/ ConfigWrite
    \/ ConfigReadBack

SpecStore == Init /\ [][NextStore]_vars

\* ---------------------------------------------------- one file, one read

\* The line of the firmware's report for motor 1's microsteps, as the
\* firmware prints it and with the motor spelled out.
MicrostepsLine == "[1mi] m1 microsteps              8 [1,2,4,8]\n"
MicrostepsLineSpelled == "[1mi]  motor 1 microsteps      8 [1,2,4,8]\n"

\* Lines of the firmware's $$ report: settings, a setting this registry does
\* not know, a prompt, an empty line.
TextLines ==
    { MicrostepsLine,
      MicrostepsLineSpelled,
      "[xvm] x velocity maximum 16000.000 mm/min\n",
      "[id] TinyG ID 9H3583-XZT\n",
      "[ja] junction acceleration 2000000 mm\n",
      "[zz9] unknown setting 5\n",
      "tinyg [mm] ok> \n",
      "\n" }

\* One-line JSON documents: known groups and keys, and a group and a key the
\* registry does not know.
JsonLines ==
    { "{\"x\": {\"vm\": 16000, \"tn\": 0.010}, \"sys\": {\"ja\": 2000000}}\n",
      "{\"x\": {\"zz\": 1}, \"q\": {\"vm\": 1}}\n" }

RECURSIVE FilesOfLen(_)
FilesOfLen(n) ==
    IF n = 0 THEN { << >> }
    ELSE { Append(f, l) : f \in FilesOfLen(n - 1), l \in TextLines \cup JsonLines }

\* What file.readlines() returns for the files main is given.
InputFiles == UNION { FilesOfLen(n) : n \in 0..MaxLines }

InitFile ==
    /\ Start
    /\ file \in InputFiles
    /\ call = NoCall
    /\ heap = << >>
    /\ passed = {}

\* main, dump / show / restore: config.read(file).
ConfigRead ==
    /\ pc = "start"
    /\ LET out == read(config, file) IN
       /\ config' = out.cfg
       /\ exc' = out.exc
       /\ pc' = IF out.exc = "" THEN "loaded" ELSE "raised"
    /\ call' = [op |-> "read", n |-> call.n + 1, before |-> config]
    /\ UNCHANGED << file, heap, passed >>
    /\ UNCHANGED driver

NextFile == ConfigRead

SpecFile == InitFile /\ [][NextFile]_vars

\* ------------------------------------------------ dict objects by identity

\* Here Config.config maps each group to a reference to the dict that holds
\* its fields, so that a dict shared by the store and a caller is one object.

\* A reference to the dict object heap[r].
Ref(r) == [t |-> "ref", r |-> r]

\* The field maps a caller passes, and the value it later writes in a dict
\* it holds.
HeapFields == { << Entry(k, v) >> : k \in MergeKeys, v \in {Num(5), Flt("0.5")} }
CallerValue == Num(9)

\* add_group({key: <object r>}): an existing group is updated from the
\* object, an absent one becomes the object itself.
add_group_ref(cfg, h, key, r) ==
    IF Has(cfg, key)
    THEN [cfg |-> cfg,
          heap |-> [h EXCEPT ![Get(cfg, key).r] = DictUpdate(@, h[r])]]
    ELSE [cfg |-> DictSet(cfg, key, Ref(r)), heap |-> h]

\* Variant of get_group_ref that returns the stored dict itself.
get_group_alias(cfg, h, group_id) ==
    IF Has(cfg, group_id) THEN [heap |-> h, ret |-> Get(cfg, group_id)]
    ELSE [heap |-> h, ret |-> None]

\* get_group: self.config[group_id].copy(), a new object; None when the
\* group is absent.
get_group_ref(cfg, h, group_id) ==
    IF Has(cfg, group_id)
    THEN [heap |-> Append(h, h[Get(cfg, group_id).r]), ret |-> Ref(Len(h) + 1)]
    ELSE [heap |-> h, ret |-> None]

\* The store as the two-level mapping its objects hold.
Contents(cfg, h) ==
    [g \in Keys(cfg) |-> [k \in Keys(h[Get(cfg, g).r]) |-> Get(h[Get(cfg, g).r], k)]]

\* The caller builds a dict and passes it: config.add_group({g: fields}).
HeapAddGroup ==
    /\ pc = "start"
    /\ Len(heap) < MaxObjects
    /\ \E g \in MergeGroups, f \in HeapFields :
          LET out == add_group_ref(config, Append(heap, f), g, Len(heap) + 1) IN
          /\ config' = out.cfg
          /\ heap' = out.heap
          /\ call' = [op |-> "add_group", n |-> call.n + 1, group |-> g,
                      arg |-> Ref(Len(heap) + 1)]
    /\ passed' = passed \cup {Len(heap) + 1}
    /\ UNCHANGED << pc, exc, file >>
    /\ UNCHANGED driver

\* config.get_group(g)
HeapGetGroup ==
    /\ pc = "start"
    /\ Len(heap) < MaxObjects
    /\ \E g \in MergeGroups :
          LET out == get_group_ref(config, heap, g) IN
          /\ heap' = out.heap
          /\ call' = [op |-> "get_group", n |-> call.n, group |-> g, ret |-> out.ret,
                      store |-> config, before |-> Contents(config, heap)]
    /\ UNCHANGED << pc, exc, config, file, passed >>
    /\ UNCHANGED driver

\* The caller writes in the dict get_group returned: ret[k] = v.
HeapMutateReturned ==
    /\ pc = "start"
    /\ call.op \in {"get_group", "mutate_returned"}
    /\ call.ret # None
    /\ \E k \in MergeKeys :
          heap' = [heap EXCEPT ![call.ret.r] = DictSet(@, k, CallerValue)]
    /\ call' = [call EXCEPT !.op = "mutate_returned"]
    /\ UNCHANGED << pc, exc, config, file, passed >>
    /\ UNCHANGED driver

\* The caller writes in a field map it passed to add_group earlier:
\* d[g][k] = v.
HeapMutatePassed ==
    /\ pc = "start"
    /\ \E r \in passed, k \in MergeKeys :
          /\ heap' = [heap EXCEPT ![r] = DictSet(@, k, CallerValue)]
          /\ call' = [op |-> "mutate_passed", n |-> call.n, arg |-> Ref(r)]
    /\ UNCHANGED << pc, exc, config, file, passed >>
    /\ UNCHANGED driver

NextHeap ==
    \/ HeapAddGroup
    \/ HeapGetGroup
    \/ HeapMutateReturned
    \/ HeapMutatePassed

SpecHeap == Init /\ [][NextHeap]_vars

\* ------------------------------------------------------ flat keys resolved

\* The flat key the firmware prints for key k of group g.
FlatKey(g, k) == IF g = "sys" THEN k ELSE g \o k

\* A group of CONFIG_MAP and a key of its schema.
InitKey ==
    /\ Start
    /\ file = << >>
    /\ heap = << >>
    /\ passed = {}
    /\ \E i \in 1..NGroups :
          \E j \in DOMAIN CONFIG_STR[CONFIG_MAP[i][2]] :
              call = [op |-> "none", n |-> 0, group |-> CONFIG_MAP[i][1],
                      key |-> CONFIG_STR[CONFIG_MAP[i][2]][j]]

\* read_text: id_to_group_key(key) of the flat key.
ResolveKey ==
    /\ call.op = "none"
    /\ call' = [call EXCEPT !.op = "id_to_group_key",
                            !.n = 1] @@ [ret |-> id_to_group_key(FlatKey(call.group, call.key))]
    /\ UNCHANGED << pc, exc, config, file, heap, passed >>
    /\ UNCHANGED driver

NextKey == ResolveKey

SpecKey == InitKey /\ [][NextKey]_vars

\* ---------------------------------------------------------------- claims

\* The 'r' line, or the timeout, that ended the last wait.
EndedByLine == lastEnd.how = "line"
EndedByAck == lastEnd.how = "line" /\ Has(lastEnd.json, "r")
EndedByTimeout == lastEnd.how = "timeout"

\* The last wait was ended by the device's answer to the awaited command.
EndedByOwnAck == EndedByAck /\ lastEnd.re = lastEnd.for

\* C1: a received JSON object without a top-level 'r' key never ends a wait:
\* whenever a wait was ended by a line, that line has an 'r' key.
C1_LinesWithoutRDiscarded == EndedByLine => Has(lastEnd.json, "r")

\* C2: a line with a top-level 'r' key is an acknowledgement whatever the
\* value of 'r': when the device's answer to a chunk ends the wait for that
\* chunk, write_config does not report a failure, and the write goes on.
C2_AnyRAcknowledges == (lastEnd.at = "wc_wait" /\ EndedByOwnAck) => exc = ""

\* The set commands sent for a group, in the order sent.
SetCommandsFor(group_id) ==
    SelectSeq(sent, LAMBDA c : c[1].k = group_id /\ c[1].v.t = "obj")

\* The keys of a stored group that are not in its Read-Only Set.
WritableKeySet(group_id) ==
    IF Has(config, group_id) /\ Get(config, group_id).t = "obj"
    THEN { k \in Keys(Get(config, group_id).d) :
             group_id \in DOMAIN CONFIG_READ_ONLY => k \notin CONFIG_READ_ONLY[group_id] }
    ELSE {}

WriteEnded == cmd = "restore" /\ sent # << >> /\ pc \in {"done", "raised"}

\* C3: when the only failures of a write are chunks whose read timed out,
\* every group of the store that has something to write is still attempted.
C3_LaterGroupsStillWritten ==
    (WriteEnded /\ \A f \in failures : f.how = "timeout")
        => \A i \in 1..NGroups :
              WritableKeySet(GroupId(i)) # {} => SetCommandsFor(GroupId(i)) # << >>

\* C4: once a wait for a chunk of a group ended without an acknowledgement, no
\* later command is sent for that group.
C4_NoChunkAfterFailure ==
    \A f \in failures :
        \A i \in (f.at + 1)..Len(sent) : sent[i][1].k # f.group

\* C4's case: the read of chunk 2 of a group of 3 chunks timed out.
C4_Witness ==
    \E f \in failures :
        /\ f.how = "timeout"
        /\ Cardinality(WritableKeySet(f.group)) > 2 * ChunkSize
        /\ Len(SetCommandsFor(f.group)) = 2

\* The chunks sent for a group are the ceil(n/10) consecutive chunks of its n
\* writable keys: at most 10 keys each, 10 in all but the last, disjoint,
\* together every writable key once, each with its stored value.
ChunksExact(group_id) ==
    LET cs == SetCommandsFor(group_id)
        w == WritableKeySet(group_id)
        n == Cardinality(w)
        d(j) == cs[j][1].v.d
    IN /\ Len(cs) = (n + 9) \div 10
       /\ \A j \in DOMAIN cs :
             /\ Len(d(j)) <= 10
             /\ j < Len(cs) => Len(d(j)) = 10
             /\ Cardinality(Keys(d(j))) = Len(d(j))
             /\ \A e \in DOMAIN d(j) :
                   d(j)[e].v = Get(Get(config, group_id).d, d(j)[e].k)
       /\ \A j, l \in DOMAIN cs : j # l => Keys(d(j)) \cap Keys(d(l)) = {}
       /\ UNION { Keys(d(j)) : j \in DOMAIN cs } = w

\* C5: when every chunk sent was acknowledged (its wait was ended by a line
\* with an 'r' key, the last one by the device's answer to that chunk), each
\* group is written in exactly its ceil(n/10) chunks.
C5_AcknowledgedWriteSendsAllChunks ==
    (WriteEnded /\ failures = {} /\ (lastEnd.at = "wc_wait" => EndedByOwnAck))
        => \A i \in 1..NGroups : ChunksExact(GroupId(i))

\* C6: no set command carries a key of its group's Read-Only Set, and the
\* filter drops nothing else: while a group is being written, the keys sent
\* for it and the keys still to send are exactly its non-read-only keys.
C6_ReadOnlyKeysNeverSent ==
    /\ \A i \in DOMAIN sent :
          (sent[i][1].v.t = "obj" /\ sent[i][1].k \in DOMAIN CONFIG_READ_ONLY)
              => Keys(sent[i][1].v.d) \cap CONFIG_READ_ONLY[sent[i][1].k] = {}
    /\ pc = "wc_wait" =>
          LET cs == SetCommandsFor(GroupId(gi)) IN
          UNION { Keys(cs[j][1].v.d) : j \in DOMAIN cs }
              \cup { filtered_keys[j] : j \in DOMAIN filtered_keys }
            = WritableKeySet(GroupId(gi))

\* C6's case: a sys group holding fb, fv, id and ja is written as one command
\* that holds ja alone.
C6_Witness ==
    /\ pc = "done"
    /\ Has(config, "sys")
    /\ Keys(Get(config, "sys").d) = {"fb", "fv", "id", "ja"}
    /\ Len(SetCommandsFor("sys")) = 1
    /\ Keys(SetCommandsFor("sys")[1][1].v.d) = {"ja"}

\* C7: the 'r' line whose payload read_config merges, or write_config takes
\* as the acknowledgement of a chunk, answers the command that was awaited,
\* never an earlier one.
C7_RepliesCorrelated ==
    (lastEnd.at \in {"rc_wait", "wc_wait"} /\ EndedByAck /\ Truthy(Get(lastEnd.json, "r")))
        => lastEnd.re = lastEnd.for

\* C8: after a wait of read_config that timed out, the store is what it was
\* when the awaited query was sent.
C8_TimeoutMergesNothing ==
    (lastEnd.at = "rc_wait" /\ EndedByTimeout) => config = lastEnd.store

\* C8's case: a query timed out after earlier replies had been merged.
C8_Witness ==
    /\ lastEnd.at = "rc_wait"
    /\ EndedByTimeout
    /\ lastEnd.store # << >>

\* The group-ids in Group Mapping order.
GroupOrder ==
    << "sys", "1", "2", "3", "4", "x", "y", "z", "a", "b", "c", "p1", "g54",
       "g55", "g56", "g57", "g58", "g59", "g92", "g28", "g30" >>

C10_OneRequestOutstanding ==
    (Len(sent) >= 2 /\ pc \in WaitStates) =>
        /\ lastEnd.for = Len(sent) - 1
        /\ EndedByTimeout \/ EndedByAck

\* C11: every wait for a reply ends: read_response eventually returns,
\* whatever the device sends meanwhile.  A restore sends finitely many
\* commands, so this is main not staying in its waits for ever.
C11_EveryWaitEnds == (pc \in WaitStates) ~> (pc \notin WaitStates)

\* A stored group as the mapping it is (the order of its keys set aside).
GroupMap(cfg, g) == [k \in Keys(Get(cfg, g).d) |-> Get(Get(cfg, g).d, k)]

\* A store as the two-level mapping it is.
StoreMap(cfg) == [g \in Keys(cfg) |-> GroupMap(cfg, g)]

\* C12: add_group({g: F}) is a shallow union into group g: afterwards g holds
\* every key of F with F's value, every key it held before and F does not
\* name with its old value, and no other key (an absent g is created holding
\* exactly F); every other group is as it was.
C12_AddGroupIsShallowUnion ==
    call.op = "add_group" =>
        LET g == call.group
            F == call.fields
            old == IF Has(call.before, g) THEN GroupMap(call.before, g) ELSE << >>
        IN /\ exc = ""
           /\ Keys(config) = Keys(call.before) \cup {g}
           /\ DOMAIN GroupMap(config, g) = Keys(F) \cup DOMAIN old
           /\ \A k \in Keys(F) : GroupMap(config, g)[k] = Get(F, k)
           /\ \A k \in DOMAIN old \ Keys(F) : GroupMap(config, g)[k] = old[k]
           /\ \A h \in Keys(call.before) \ {g} :
                 GroupMap(config, h) = GroupMap(call.before, h)

\* C12's case: a group holding am and vm is merged with a new value of vm
\* alone, while another group is in the store.
C12_Witness ==
    /\ call.op = "add_group"
    /\ Has(call.before, call.group)
    /\ Keys(Get(call.before, call.group).d) = {"am", "vm"}
    /\ Keys(call.fields) = {"vm"}
    /\ Get(call.fields, "vm") # Get(Get(call.before, call.group).d, "vm")

\* The (group, key) pairs of the registry: a group of Group Mapping and a
\* key of its schema.
Registered(g, k) ==
    \E i \in 1..NGroups :
        /\ CONFIG_MAP[i][1] = g
        /\ \E j \in DOMAIN CONFIG_STR[CONFIG_MAP[i][2]] :
              CONFIG_STR[CONFIG_MAP[i][2]][j] = k

\* Every (group, key) pair of the store is a pair of the registry.
StoreRegistered ==
    \A g \in Keys(config) :
        /\ Get(config, g).t = "obj"
        /\ \A k \in Keys(Get(config, g).d) : Registered(g, k)

\* Config.read took the file for text.
ReadAsText == file # << >> /\ CharAt(file[1], 1) # "{"

\* C13: in every state of the store, after a file read of either format,
\* every (group, key) pair resolves to a field of the registry.
C13_StoreHoldsRegistryPairsOnly == StoreRegistered

\* C13 as amended: every pair a text file read puts in the store is a pair
\* of the registry.
C13_TextReadStoresRegistryPairsOnly ==
    (call.op = "read" /\ ReadAsText) => StoreRegistered

\* C13's case: a text file read stored settings of two groups.
C13_Witness ==
    /\ call.op = "read"
    /\ ReadAsText
    /\ exc = ""
    /\ Cardinality(Keys(config)) >= 2

\* C14: get_group returns a copy: it leaves the store as it was, what it
\* returns holds what the group holds, writing in what it returned leaves
\* the store as it was, and for an absent group it returns None and creates
\* no group.
C14_GetGroupReturnsCopy ==
    call.op \in {"get_group", "mutate_returned"} =>
        /\ config = call.store
        /\ Contents(config, heap) = call.before
        /\ call.group \notin Keys(call.store) => call.ret = None
        /\ (call.op = "get_group" /\ call.group \in Keys(call.store)) =>
              /\ call.ret # None
              /\ [k \in Keys(heap[call.ret.r]) |-> Get(heap[call.ret.r], k)]
                    = call.before[call.group]

\* C14's case: the caller changed a value in the dict get_group returned.
C14_Witness ==
    /\ call.op = "mutate_returned"
    /\ \E k \in Keys(heap[call.ret.r]) :
          /\ k \in DOMAIN call.before[call.group]
          /\ Get(heap[call.ret.r], k) # call.before[call.group][k]

\* C14's other case: get_group of a group the store does not hold.
C14_WitnessAbsent ==
    /\ call.op = "get_group"
    /\ config # << >>
    /\ call.group \notin Keys(config)

\* C15: Config.write followed by Config.read of the written file into a
\* fresh Config yields a store equal to the one written, for every store
\* built by merges, the empty store included.
C15_WriteReadRoundTrip ==
    call.op = "read" =>
        /\ call.ret.exc = ""
        /\ StoreMap(call.ret.cfg) = StoreMap(config)

\* C15's case: a store of two groups holding an int, a float and a string
\* with a quote was written and read back.
C15_Witness ==
    /\ call.op = "read"
    /\ Keys(config) = {"x", "y"}
    /\ \E g \in Keys(config), k \in MergeKeys :
          Has(Get(config, g).d, k) /\ Get(Get(config, g).d, k) = Str("a\"b")
    /\ \E g \in Keys(config), k \in MergeKeys :
          Has(Get(config, g).d, k) /\ Get(Get(config, g).d, k) = Flt("0.5")

\* C15's other case: the empty store was written and read back.
C15_WitnessEmpty ==
    /\ call.op = "read"
    /\ config = << >>
    /\ file = << "{}\n" >>

\* C16: for every group g of Group Mapping and every key k of g's schema,
\* id_to_group_key of the flat key g+k (the bare k when g is sys) returns
\* exactly (g, k).
C16_FlatKeyResolvesBack ==
    call.op = "id_to_group_key" =>
        call.ret = [t |-> "tuple", group |-> call.group, key |-> call.key]

\* C16's case: xsv, whose key sv is a key of the sys schema too, resolved.
C16_Witness ==
    /\ call.op = "id_to_group_key"
    /\ call.group = "x"
    /\ call.key = "sv"
    /\ call.ret # None

\* C17: read_text of the line "[1mi]  motor 1 microsteps      8 [1,2,4,8]"
\* stores group 1, key mi, integer 8: the value printed for the setting,
\* though the description holds a number.
C17_SpelledLineStoresEight ==
    (call.op = "read" /\ file = << MicrostepsLineSpelled >>)
        => /\ exc = ""
           /\ StoreMap(config) = ("1" :> ("mi" :> Num(8)))

\* C17's case seen from the firmware's own line, which does store 8.
C17_FirmwareLineStoresEight ==
    (call.op = "read" /\ file = << MicrostepsLine >>)
        => /\ exc = ""
           /\ StoreMap(config) = ("1" :> ("mi" :> Num(8)))

\* The first line of a file that is not blank, 0 when all are.
FirstNonBlank(lines) ==
    IF \E i \in DOMAIN lines : strip(lines[i]) # ""
    THEN CHOOSE i \in DOMAIN lines :
            strip(lines[i]) # "" /\ \A j \in 1..(i - 1) : strip(lines[j]) = ""
    ELSE 0

\* The file is a JSON document after blank lines only.
JsonAfterBlankLines ==
    /\ FirstNonBlank(file) > 1
    /\ CharAt(file[FirstNonBlank(file)], 1) = "{"
    /\ loads(join(" ", SubSeq(file, FirstNonBlank(file), Len(file)))).ok

\* C18: Config.read chooses the format from the first non-empty line: a JSON
\* document preceded by blank lines is read as JSON, and its groups are in
\* the store afterwards with what the document holds for them.
C18_BlankLinesBeforeJson ==
    (call.op = "read" /\ JsonAfterBlankLines) =>
        LET doc == loads(join(" ", SubSeq(file, FirstNonBlank(file), Len(file)))).v.d IN
        /\ exc = ""
        /\ \A g \in Keys(doc) :
              /\ Has(config, g)
              /\ GroupMap(config, g) = [k \in Keys(Get(doc, g).d) |-> Get(Get(doc, g).d, k)]

\* The same for a document on the first line, which read does take for JSON.
C18_JsonOnFirstLine ==
    (call.op = "read" /\ file # << >> /\ CharAt(file[1], 1) = "{"
        /\ loads(join(" ", file)).ok) =>
        LET doc == loads(join(" ", file)).v.d IN
        /\ exc = ""
        /\ \A g \in Keys(doc) :
              /\ Has(config, g)
              /\ GroupMap(config, g) = [k \in Keys(Get(doc, g).d) |-> Get(Get(doc, g).d, k)]

\* A flat key that is a key of the registry: a bare key of the sys schema,
\* or a group of Group Mapping followed by a key of its schema.
KnownFlatKey(id) ==
    \E i \in 1..NGroups :
        \E j \in DOMAIN CONFIG_STR[CONFIG_MAP[i][2]] :
            \/ id = CONFIG_MAP[i][1] \o CONFIG_STR[CONFIG_MAP[i][2]][j]
            \/ CONFIG_MAP[i][1] = "sys" /\ id = CONFIG_STR[CONFIG_MAP[i][2]][j]

\* Line i of the file is a setting line whose flat key the registry does not
\* know.
UnknownSetting(i) ==
    /\ CharAt(file[i], 1) = "["
    /\ BracketKey(split(strip(file[i]))[1]) # None
    /\ ~KnownFlatKey(BracketKey(split(strip(file[i]))[1]).s)

\* C19: when read_text meets a setting line whose flat key resolves to no
\* group and key of the registry, it fails with an error that reaches the
\* caller of Config.read: the store is what the lines before that line left,
\* so neither that line nor any line after it is merged.
C19_UnknownKeyAbortsParse ==
    (call.op = "read" /\ ReadAsText) =>
        \A i \in DOMAIN file :
            (UnknownSetting(i) /\ \A j \in 1..(i - 1) : ~UnknownSetting(j)) =>
                /\ exc # ""
                /\ pc = "raised"
                /\ config = read_text(<< >>, SubSeq(file, 1, i - 1)).cfg

\* C19's case: a known setting, then an unknown one, then a known one: the
\* first alone is in the store.
C19_Witness ==
    /\ call.op = "read"
    /\ Len(file) = 3
    /\ UnknownSetting(2)
    /\ exc = "TypeError"
    /\ Keys(config) = {"x"}
    /\ file[3] = "[ja] junction acceleration 2000000 mm\n"

\* The longest line the device takes, its newline included.
LineLimit == 254

\* C20: every command line written to the port, query or set, is at most 254
\* bytes long with its newline, whatever the values of the chunk it carries.
C20_CommandLinesWithinLimit ==
    \A i \in DOMAIN sent : Len(send_json(sent[i])) <= LineLimit

\* The place of a group in Group Mapping.
GroupPlace(group_id) == CHOOSE i \in DOMAIN GroupOrder : GroupOrder[i] = group_id

\* C21: write_config never sends a set command with an empty field map: for
\* a group that the store lacks, holds empty or holds with read-only keys
\* alone, no command is sent and no reply is awaited; and the commands go out
\* in Group Mapping order.
C21_NoEmptySetCommand ==
    cmd = "restore" =>
        /\ \A i \in 2..Len(sent) :
              /\ sent[i][1].v.t = "obj"
              /\ sent[i][1].v.d # << >>
        /\ \A i \in 1..NGroups :
              WritableKeySet(GroupId(i)) = {} => SetCommandsFor(GroupId(i)) = << >>
        /\ pc = "wc_wait" => WritableKeySet(GroupId(gi)) # {}
        /\ \A i, j \in 2..Len(sent) :
              i < j => GroupPlace(sent[i][1].k) <= GroupPlace(sent[j][1].k)

\* C21's case: the store holds sys with read-only keys alone, x empty and
\* g30 with a key (every other group absent); the write ended having sent
\* one set command, for g30.
C21_Witness ==
    /\ cmd = "restore"
    /\ pc = "done"
    /\ Keys(config) = {"sys", "x", "g30"}
    /\ Get(config, "sys").d # << >>
    /\ WritableKeySet("sys") = {}
    /\ Get(config, "x").d = << >>
    /\ Len(sent) = 2
    /\ sent[2][1].k = "g30"

\* A merge leaves the field maps passed to add_group earlier as they were.
MergeLeavesPassedMaps ==
    (call'.op = "add_group" /\ call'.n = call.n + 1) =>
        \A r \in passed : heap'[r] = heap[r]

\* A write of the caller in a field map it passed leaves the store as it was.
CallerWriteLeavesStore ==
    call'.op = "mutate_passed" => Contents(config', heap') = Contents(config, heap)

\* C22: the store shares no state with the mappings passed to add_group:
\* after add_group(d) a later merge leaves the field maps of d unchanged, and
\* a later write of the caller in a field map of d leaves the store unchanged.
C22_StoreSharesNoState == [][MergeLeavesPassedMaps /\ CallerWriteLeavesStore]_vars

====
